---- MODULE Spec2Model ----
(***************************************************************************)
(* A model of PyRCN's reservoir estimators                                 *)
(* (pyrcn/extreme_learning_machine.py) and of the incremental ridge        *)
(* regression (pyrcn/linear_model/_incremental_regression.py).             *)
(*                                                                         *)
(* Numbers are exact: reservoir weights, inputs and targets are integers,  *)
(* and everything the code divides (the inverse of X^T X, means and        *)
(* variances, predictions) is a normalised rational [n |-> _, d |-> _].    *)
(* Floating-point rounding is not modelled.                                *)
(***************************************************************************)
EXTENDS Integers, Sequences, FiniteSets, TLC

\* ------------------------------------------------------------------ bounds
\* the number of method calls made on one estimator
MaxCalls == 4
\* the number of partial_fit calls of one stream of batches
MaxStreamCalls == 2
\* the number of samples (rows of X) in one batch of a stream
MaxBatch == 1
\* the number of method calls made on one estimator that solves in parallel
MaxParallelCalls == 3

\* ------------------------------------------------------- exact arithmetic
Abs(a) == IF a < 0 THEN -a ELSE a

RECURSIVE Gcd(_, _)
Gcd(a, b) == IF b = 0 THEN a ELSE Gcd(b, a % b)

\* the rational n/d in lowest terms with a positive denominator (d # 0)
Rat(n, d) ==
    LET Reduce(g, s) == [n |-> (s * n) \div g, d |-> (s * d) \div g]
    IN  Reduce(Gcd(Abs(n), Abs(d)), IF d < 0 THEN -1 ELSE 1)

RInt(a) == [n |-> a, d |-> 1]
RNeg(p) == [n |-> -p.n, d |-> p.d]
\* sums and products cancel common factors first, to keep the integers small
RAdd(p, q) ==
    LET Over(g) == Rat(p.n * (q.d \div g) + q.n * (p.d \div g), (p.d \div g) * q.d)
    IN  Over(Gcd(p.d, q.d))
RSub(p, q) == RAdd(p, RNeg(q))
RMul(p, q) ==
    LET Cross(g1, g2) ==
            Rat((p.n \div g1) * (q.n \div g2), (p.d \div g2) * (q.d \div g1))
    IN  Cross(Gcd(Abs(p.n), q.d), Gcd(Abs(q.n), p.d))

RECURSIVE SumInt(_)
SumInt(s) == IF s = <<>> THEN 0 ELSE Head(s) + SumInt(Tail(s))

RECURSIVE SumRat(_)
SumRat(s) == IF s = <<>> THEN RInt(0) ELSE RAdd(Head(s), SumRat(Tail(s)))

\* ------------------------------------------------- integer matrices (numpy)
\* a matrix is the sequence of its rows; a vector is a sequence of numbers
\* an array built element by element, as the tuple of its elements
Arr(f) == <<>> \o f
Rows(A) == Len(A)
Cols(A) == Len(A[1])
Zeros(r, c) == Arr([i \in 1..r |-> Arr([j \in 1..c |-> 0])])
Eye(r) == Arr([i \in 1..r |-> Arr([j \in 1..r |-> IF i = j THEN 1 ELSE 0])])
Transpose(A) == Arr([j \in 1..Cols(A) |-> Arr([i \in 1..Rows(A) |-> A[i][j]])])
MatMul(A, B) ==
    Arr([i \in 1..Rows(A) |-> Arr([j \in 1..Cols(B) |->
        SumInt([k \in 1..Rows(B) |-> A[i][k] * B[k][j]])])])
MatAdd(A, B) ==
    Arr([i \in 1..Rows(A) |-> Arr([j \in 1..Cols(A) |-> A[i][j] + B[i][j]])])
MatScale(c, A) ==
    Arr([i \in 1..Rows(A) |-> Arr([j \in 1..Cols(A) |-> c * A[i][j]])])
SameShape(A, B) == Rows(A) = Rows(B) /\ Cols(A) = Cols(B)

\* A without row i and column j
Minor(A, i, j) ==
    Arr([r \in 1..(Rows(A) - 1) |-> Arr([c \in 1..(Cols(A) - 1) |->
        A[IF r < i THEN r ELSE r + 1][IF c < j THEN c ELSE c + 1]])])

Sign(k) == IF k % 2 = 0 THEN 1 ELSE -1

RECURSIVE Det(_)
Det(A) ==
    IF Rows(A) = 1 THEN A[1][1]
    ELSE SumInt([j \in 1..Cols(A) |-> Sign(1 + j) * A[1][j] * Det(Minor(A, 1, j))])

\* the adjugate: inv(A) = Adjugate(A) / Det(A)
Adjugate(A) ==
    IF Rows(A) = 1 THEN <<<<1>>>>
    ELSE Arr([i \in 1..Rows(A) |->
            Arr([j \in 1..Cols(A) |-> Sign(i + j) * Det(Minor(A, j, i))])])

\* numpy.linalg.inv: the exact inverse as a matrix of rationals; the caller
\* has checked Det(A) # 0 (a singular matrix raises LinAlgError)
Inv(A) ==
    LET Divide(adj, d) ==
            Arr([i \in 1..Rows(A) |-> Arr([j \in 1..Cols(A) |-> Rat(adj[i][j], d)])])
    IN  Divide(Adjugate(A), Det(A))

\* np.dot of a rational matrix with an integer matrix
RatDotInt(P, B) ==
    Arr([i \in 1..Rows(P) |-> Arr([j \in 1..Cols(B) |->
        SumRat([k \in 1..Rows(B) |-> RMul(P[i][k], RInt(B[k][j]))])])])

\* np.dot of an integer matrix with a rational matrix
IntDotRat(A, W) ==
    Arr([i \in 1..Rows(A) |-> Arr([j \in 1..Cols(W) |->
        SumRat([k \in 1..Rows(W) |-> RMul(RInt(A[i][k]), W[k][j])])])])

\* np.matmul of two rational matrices
RatDot(P, Q) ==
    Arr([i \in 1..Rows(P) |-> Arr([j \in 1..Cols(Q) |->
        SumRat([k \in 1..Rows(Q) |-> RMul(P[i][k], Q[k][j])])])])

\* A + B and y - B for an integer y, element by element, on rationals
RatAdd(A, B) ==
    Arr([i \in 1..Rows(A) |-> Arr([j \in 1..Cols(A) |-> RAdd(A[i][j], B[i][j])])])
IntSubRat(y, B) ==
    Arr([i \in 1..Rows(y) |-> Arr([j \in 1..Cols(y) |-> RSub(RInt(y[i][j]), B[i][j])])])

\* a > b on rationals
RGt(a, b) == a.n * b.d > b.n * a.d

\* np.mean(A, axis=0) and np.var(A, axis=0): one rational per column
ColMean(A) ==
    Arr([j \in 1..Cols(A) |-> Rat(SumInt([i \in 1..Rows(A) |-> A[i][j]]), Rows(A))])
ColVar(A) ==
    LET Variance(n, s1, s2) == Rat(n * s2 - s1 * s1, n * n)
    IN  Arr([j \in 1..Cols(A) |->
            Variance(Rows(A), SumInt([i \in 1..Rows(A) |-> A[i][j]]),
                     SumInt([i \in 1..Rows(A) |-> A[i][j] * A[i][j]]))])

\* v[1:] of a vector
DropFirst(v) == Arr([j \in 1..(Len(v) - 1) |-> v[j + 1]])

\* ------------------------------------------------------------ the estimator
VARIABLES
    kind,       \* the class under test: ESNRegressor, ESNClassifier or IncrementalRegression
    hyper,      \* the constructor arguments of the estimator
    est,        \* the attributes the estimator's methods set on self
    last,       \* the last call made: its name, the exception it raised, its result
                \* (and the update_output_weights or reset argument of a partial_fit)
    calls,      \* the number of calls made so far
    absorbed,   \* the samples of the partial_fit calls that returned since _initialize
                \* (for IncrementalRegression: the samples of the calls since the
                \* last reset, empty once a call has raised since then)
    clean,      \* the estimator was fresh at its first partial_fit, and since then
                \* every call was a partial_fit or a finalize that returned (for
                \* IncrementalRegression: a first fit or partial_fit on the fresh
                \* estimator, then partial_fit calls without reset that returned)
    trained,    \* fit or partial_fit has been called on the estimator
    finalized   \* finalize() has returned on the estimator

vars == <<kind, hyper, est, last, calls, absorbed, clean, trained, finalized>>

\* Python's None, for the attributes that hold an array or None
None == <<>>

_OFFLINE_SOLVERS == {"pinv", "ridge", "lasso"}

\* the attributes _initialize creates
InitializedAttrs ==
    {"_random_state", "n_outputs_", "_n_samples", "input_weights_", "bias_weights_",
     "output_weights_", "_activations_mean", "_activations_var", "_xTx", "_xTy"}

\* output_weights_ is None, an ndarray (n_jobs = 0) or the list joblib returns
NoWeights == [type |-> "NoneType", val |-> None]

\* a freshly constructed estimator: __init__ stores the hyperparameters only
FreshEstimator ==
    [attrs |-> {}, n_outputs_ |-> 0, _n_samples |-> 0,
     input_weights_ |-> None, bias_weights_ |-> None, output_weights_ |-> NoWeights,
     _xTx |-> None, _xTy |-> None,
     _activations_mean |-> None, _activations_var |-> None,
     activations_mean |-> None, activations_var |-> None,
     classes_ |-> None]

Returned(st) == [st |-> st, exc |-> "none"]
Raised(st, e) == [st |-> st, exc |-> e]

\* ------------------------------------------------------ the random generator
\* check_random_state(random_state): an integer seeds a new generator, so the
\* draws are a function of the seed; None is numpy's global generator, whose
\* draws are any the entropy allows.  random_state is <<>> (None) or <<seed>>.
Seeds == {0, 1}

\* a generator that ignores the seed it is given
AnyEntropy(random_state) == Seeds

Entropy(random_state) == IF random_state = <<>> THEN Seeds ELSE {random_state[1]}

\* the i-th draw of rand() * 2 - 1, on a unit scale
RandUniform(rng, i) == IF (rng \div (2 ^ (i - 1))) % 2 = 0 THEN 1 ELSE -1

\* permutation(n_features) drawn before unit en is connected: a rotation of 1..n
Permutation(rng, en, n_features) ==
    Arr([j \in 1..n_features |-> ((j - 1 + rng + en) % n_features) + 1])

Min(a, b) == IF a < b THEN a ELSE b

\* _init_weights: the dense view of the sparse input weights, the bias weights,
\* and whether the allocation succeeds: np.zeros((2, nr_entries)) needs a
\* non-negative nr_entries, and the index assignment
\* ij[1][idx_co:idx_co+k_in] = per assigns k_in values or broadcasts a single one
InitWeights(hp, n_features, rng) ==
    LET nr_entries == hp.reservoir_size * hp.k_in
        data_vec(i) == RandUniform(rng, i)
        per(en) == SubSeq(Permutation(rng, en, n_features), 1, Min(hp.k_in, n_features))
        col(en, j) == IF Len(per(en)) = 1 THEN per(en)[1] ELSE per(en)[j]
        entry(en, c) ==
            SumInt([j \in 1..hp.k_in |->
                IF col(en, j) = c THEN data_vec((en - 1) * hp.k_in + j) ELSE 0])
        weights(ok) ==
            [ok |-> ok,
             input_weights_init |->
                IF ~ok THEN None
                ELSE Arr([en \in 1..hp.reservoir_size |->
                        Arr([c \in 1..n_features |-> entry(en, c)])]),
             bias_weights_init |->
                IF ~ok THEN None
                ELSE Arr([en \in 1..hp.reservoir_size |->
                        RandUniform(rng, nr_entries + en)])]
    IN  weights(nr_entries >= 0 /\ (n_features >= hp.k_in \/ n_features = 1))

\* _init_state_collection_matrices
InitStateCollectionMatrices(st, hp) ==
    [st EXCEPT !._activations_mean = Arr([j \in 1..hp.reservoir_size |-> RInt(0)]),
               !._activations_var = Arr([j \in 1..hp.reservoir_size |-> RInt(0)]),
               !._xTx = Zeros(hp.reservoir_size + 1, hp.reservoir_size + 1),
               !._xTy = Zeros(hp.reservoir_size + 1, st.n_outputs_)]

\* _initialize(y, n_features) with the generator's draws rng
Initialize(st, hp, y, n_features, rng) ==
    LET Allocate(s1, w) ==
            IF ~w.ok THEN Raised(s1, "ValueError")
            ELSE Returned(InitStateCollectionMatrices(
                    [s1 EXCEPT !.attrs = @ \cup InitializedAttrs,
                               !.input_weights_ = w.input_weights_init,
                               !.bias_weights_ = w.bias_weights_init,
                               !.output_weights_ = NoWeights], hp))
    IN  Allocate([st EXCEPT !.attrs = @ \cup {"_random_state", "n_outputs_", "_n_samples"},
                            !.n_outputs_ = Cols(y),
                            !._n_samples = 0],
                 InitWeights(hp, n_features, rng))

\* ------------------------------------------------------------ the reservoir
\* the keys of sklearn's ACTIVATIONS table; any other name is a KeyError
ACTIVATIONS == {"identity", "tanh", "logistic", "relu", "softmax"}

\* sklearn's ACTIVATIONS table on integers (tanh, logistic and softmax leave the
\* integers and are not in the modelled configurations)
Activation(name, v) ==
    IF name = "relu" THEN (IF v < 0 THEN 0 ELSE v) ELSE v

\* _forward_pass: one row of hidden-unit activations per sample
ForwardPass(st, hp, X) ==
    Arr([s \in 1..Rows(X) |-> Arr([en \in 1..hp.reservoir_size |->
        Activation(hp.reservoir_activation,
            SumInt([c \in 1..Cols(X) |-> st.input_weights_[en][c] * X[s][c]])
                * hp.input_scaling
            + st.bias_weights_[en] * hp.bias)])])

\* _pass_through_reservoir: a column of ones before the activations
PassThroughReservoir(st, hp, X) ==
    LET reservoir_state == ForwardPass(st, hp, X)
    IN  Arr([s \in 1..Rows(X) |-> <<1>> \o reservoir_state[s]])

\* ------------------------------------------------------- the linear solver
\* a + b on arrays of equal row count: numpy adds equal shapes and broadcasts
\* a single column; any other pair of shapes raises ValueError
Broadcastable(A, B) == Cols(A) = Cols(B) \/ Cols(A) = 1 \/ Cols(B) = 1
NpAdd(A, B) ==
    LET c == IF Cols(A) < Cols(B) THEN Cols(B) ELSE Cols(A)
        at(M, i, j) == IF Cols(M) = 1 THEN M[i][1] ELSE M[i][j]
    IN  Arr([i \in 1..Rows(A) |-> Arr([j \in 1..c |-> at(A, i, j) + at(B, i, j)])])

\* a solver that regularizes for every name but 'pinv'
RegularizedUnlessPinv(st, hp) ==
    IF hp.solver # "pinv"
    THEN MatAdd(st._xTx, MatScale(hp.beta * hp.beta * st._n_samples, Eye(Rows(st._xTx))))
    ELSE st._xTx

\* the matrix _compute_output_weights inverts: X^T X for 'pinv' and for a
\* solver it does not implement, X^T X + beta^2 n_samples I for 'ridge'
RegularizedGram(st, hp) ==
    IF hp.solver = "ridge"
    THEN MatAdd(st._xTx, MatScale(hp.beta * hp.beta * st._n_samples, Eye(Rows(st._xTx))))
    ELSE st._xTx

\* the value stored in output_weights_: np.dot(inv_xTx, _xTy) for n_jobs = 0,
\* else the list of the n_outputs_ products np.dot(inv_xTx, _xTy[:, n])
SolvedWeights(inv_xTx, xTy, n_outputs, n_jobs) ==
    LET Gather(W) ==
            IF n_jobs > 0
            THEN [type |-> "list",
                  val |-> Arr([n \in 1..n_outputs |-> Arr([i \in 1..Rows(W) |-> W[i][n]])])]
            ELSE [type |-> "ndarray", val |-> W]
    IN  Gather(RatDotInt(inv_xTx, xTy))

\* _compute_output_weights(n_jobs)
ComputeOutputWeights(st, hp, n_jobs) ==
    LET Solve(A) ==
            IF Det(A) = 0 THEN Raised(st, "LinAlgError")
            ELSE IF n_jobs > 0 /\ st.n_outputs_ > Cols(st._xTy)
            THEN Raised(st, "IndexError")
            ELSE Returned([st EXCEPT !.output_weights_ =
                       SolvedWeights(Inv(A), st._xTy, st.n_outputs_, n_jobs)])
    IN  IF st._xTx = None
        THEN Raised(st, IF hp.solver = "ridge" THEN "AttributeError" ELSE "LinAlgError")
        ELSE Solve(RegularizedGram(st, hp))

\* ------------------------------------------------------------- _fit_offline
\* the running moments after a batch with moments new_mean, new_var is
\* combined with weight m for the stored moments and n for the batch
CombinedMean(m, n, old_mean, new_mean) ==
    Arr([j \in 1..Len(old_mean) |->
        RAdd(RMul(Rat(m, m + n), old_mean[j]), RMul(Rat(n, m + n), new_mean[j]))])
CombinedVar(m, n, old_mean, old_var, new_mean, new_var) ==
    Arr([j \in 1..Len(old_var) |->
        LET diff == RSub(old_mean[j], new_mean[j])
        IN  RAdd(RAdd(RMul(Rat(m, m + n), old_var[j]), RMul(Rat(n, m + n), new_var[j])),
                 RMul(Rat(m * n, (m + n) * (m + n)), RMul(diff, diff)))])

\* statistics that keep the last batch only
AccumulateLastBatch(st, reservoir_state, y) ==
    [st EXCEPT !._xTx = MatMul(Transpose(reservoir_state), reservoir_state),
               !._xTy = MatMul(Transpose(reservoir_state), y)]

\* lines 289-299: the statistics absorb the batch, the moments are combined
\* with m = self._n_samples, which line 285 has already increased by the batch
AccumulateIncremental(st, reservoir_state, y) ==
    LET new_activations_mean == DropFirst(ColMean(reservoir_state))
        new_activations_var == DropFirst(ColVar(reservoir_state))
        m == st._n_samples
        n == Rows(reservoir_state)
        tmp_activations_mean == st._activations_mean
    IN  [st EXCEPT
            !._xTx = MatAdd(@, MatMul(Transpose(reservoir_state), reservoir_state)),
            !._xTy = NpAdd(@, MatMul(Transpose(reservoir_state), y)),
            !._activations_mean = CombinedMean(m, n, tmp_activations_mean, new_activations_mean),
            !._activations_var = CombinedVar(m, n, tmp_activations_mean, @,
                                             new_activations_mean, new_activations_var)]

\* lines 300-304: the statistics of this batch alone; the moments go to the
\* attributes activations_mean and activations_var (no leading underscore)
AccumulateBatch(st, reservoir_state, y) ==
    [st EXCEPT
        !.attrs = @ \cup {"activations_mean", "activations_var"},
        !._xTx = MatMul(Transpose(reservoir_state), reservoir_state),
        !._xTy = MatMul(Transpose(reservoir_state), y),
        !.activations_mean = DropFirst(ColMean(reservoir_state)),
        !.activations_var = DropFirst(ColVar(reservoir_state))]

\* statistics that are never dropped
KeepStatistics(st, incremental) == st

\* lines 311-313: a fit that is not incremental drops the statistics
ReleaseStatistics(st, incremental) ==
    IF incremental THEN st ELSE [st EXCEPT !._xTx = None, !._xTy = None]

\* output weights that a call without an update leaves as they were
KeepOutputWeights(st, hp, incremental, update_output_weights, n_jobs) ==
    IF update_output_weights THEN ComputeOutputWeights(st, hp, n_jobs)
    ELSE Returned(st)

\* lines 306-313
UpdateOutputWeights(st, hp, incremental, update_output_weights, n_jobs) ==
    LET Release(solved) ==
            IF solved.exc # "none" THEN solved
            ELSE Returned(ReleaseStatistics(solved.st, incremental))
    IN  Release(IF update_output_weights
                THEN ComputeOutputWeights(st, hp, n_jobs)
                ELSE Returned([st EXCEPT !.output_weights_ = NoWeights]))

\* a count that forgets the earlier batches
CountSamplesOfBatch(st, X) == [st EXCEPT !._n_samples = Rows(X)]

\* lines 284-285: the sample count grows by the rows of X before anything else
CountSamples(st, X) == [st EXCEPT !._n_samples = @ + Rows(X)]

\* _fit_offline(X, y, incremental, update_output_weights, n_jobs)
FitOffline(st, hp, X, y, incremental, update_output_weights, n_jobs) ==
    LET Absorb(s1, reservoir_state) ==
            IF incremental
            THEN IF s1._xTx = None THEN Raised(s1, "TypeError")
                 ELSE IF ~Broadcastable(s1._xTy, y) THEN
                      Raised([s1 EXCEPT !._xTx = MatAdd(@,
                          MatMul(Transpose(reservoir_state), reservoir_state))],
                          "ValueError")
                 ELSE UpdateOutputWeights(
                          AccumulateIncremental(s1, reservoir_state, y),
                          hp, incremental, update_output_weights, n_jobs)
            ELSE UpdateOutputWeights(
                     AccumulateBatch(s1, reservoir_state, y),
                     hp, incremental, update_output_weights, n_jobs)
        Count(s1) ==
            IF Cols(X) # Cols(s1.input_weights_) THEN Raised(s1, "ValueError")
            ELSE IF hp.reservoir_activation \notin ACTIVATIONS THEN Raised(s1, "KeyError")
            ELSE Absorb(s1, PassThroughReservoir(s1, hp, X))
    IN  Count(CountSamples(st, X))

\* --------------------------------------------------------------------- _fit
\* _fit(X, y, incremental, update_output_weights, n_jobs); y is 2-D already
FitInner(st, hp, X, y, incremental, update_output_weights, n_jobs, rng) ==
    LET MarkFitted(fitted) ==
            IF fitted.exc # "none" THEN fitted
            ELSE Returned([fitted.st EXCEPT !.attrs = @ \cup {"is_fitted_"}])
        RunSolver(init) ==
            IF init.exc # "none" THEN init
            ELSE MarkFitted(IF hp.solver \in _OFFLINE_SOLVERS
                            THEN FitOffline(init.st, hp, X, y, incremental,
                                            update_output_weights, n_jobs)
                            ELSE Returned(init.st))
        FirstTime(s1) ==
            RunSolver(IF \/ "input_weights_" \notin s1.attrs
                         \/ "bias_weights_" \notin s1.attrs
                         \/ ~incremental
                      THEN Initialize(s1, hp, y, Cols(X), rng)
                      ELSE Returned(s1))
    IN  FirstTime([st EXCEPT !.attrs = @ \cup {"n_outputs_"}, !.n_outputs_ = Cols(y)])

\* ------------------------------------------------------ the public methods
\* a validation of the numeric ranges that accepts every name
InvalidRanges(hp) ==
    \/ hp.reservoir_size <= 0
    \/ hp.input_scaling <= 0
    \/ hp.k_in <= 0
    \/ hp.bias < 0
    \/ hp.beta < 0

\* _validate_hyperparameters: TRUE when it raises ValueError
InvalidHyperparameters(hp) ==
    \/ hp.reservoir_size <= 0
    \/ hp.input_scaling <= 0
    \/ hp.k_in <= 0
    \/ hp.bias < 0
    \/ hp.beta < 0
    \/ hp.reservoir_activation \notin {"identity", "logistic", "tanh", "relu"}
    \/ hp.solver \notin _OFFLINE_SOLVERS

\* ESNRegressor.fit(X, y, n_jobs): _initialize runs here and again in _fit
Fit(st, hp, X, y, n_jobs, rng1, rng2) ==
    IF InvalidHyperparameters(hp) THEN Raised(st, "ValueError")
    ELSE LET Train(init) ==
                IF init.exc # "none" THEN init
                ELSE FitInner(init.st, hp, X, y, FALSE, TRUE, n_jobs, rng2)
         IN  Train(Initialize(st, hp, y, Cols(X), rng1))

\* ESNRegressor.partial_fit(X, y, update_output_weights, n_jobs)
PartialFit(st, hp, X, y, update_output_weights, n_jobs, rng) ==
    IF hp.solver \notin _OFFLINE_SOLVERS THEN Raised(st, "AttributeError")
    ELSE FitInner(st, hp, X, y, TRUE, update_output_weights, n_jobs, rng)

\* finalize(n_jobs)
Finalize(st, hp, n_jobs) ==
    IF "output_weights_" \notin st.attrs THEN Raised(st, "AttributeError")
    ELSE LET Release(solved) ==
                IF solved.exc # "none" THEN solved
                ELSE Returned([solved.st EXCEPT
                        !._xTx = None, !._xTy = None,
                        !._activations_mean = None, !._activations_var = None,
                        !.attrs = @ \cup {"is_fitted_"}])
         IN  Release(IF st.output_weights_.type = "NoneType"
                     THEN ComputeOutputWeights(st, hp, n_jobs)
                     ELSE Returned(st))

\* the attributes that _initialize creates among those predict checks
CreatedAttributes == {"input_weights_", "bias_weights_", "output_weights_"}

\* the attributes predict hands to sklearn's check_is_fitted (line 462)
FittedCheckAttributes ==
    {"input_weights_", "reservoir_weights_", "bias_weights_", "output_weights_"}

\* a check that lets every estimator pass
CheckNothing(st, attributes) == TRUE

\* sklearn's check_is_fitted(self, attributes): NotFittedError is raised unless
\* the estimator has every one of the attributes
CheckIsFitted(st, attributes) == attributes \subseteq st.attrs

\* ndarray.any()
NdarrayAny(W) == \E i \in 1..Rows(W) : \E j \in 1..Cols(W) : W[i][j].n # 0

\* ndarray.ravel(): the rows one after the other
RECURSIVE Ravel(_)
Ravel(M) == IF M = <<>> THEN <<>> ELSE Head(M) \o Ravel(Tail(M))

\* BaseExtremeLearningMachine.predict(X); predict changes no attribute
\* (keep_reservoir_state is left at its default, False)
BasePredict(st, hp, X) ==
    IF ~CheckIsFitted(st, FittedCheckAttributes)
    THEN [exc |-> "NotFittedError", ret |-> None]
    ELSE IF st.output_weights_.type # "ndarray"
    THEN [exc |-> "AttributeError", ret |-> None]
    ELSE IF ~NdarrayAny(st.output_weights_.val)
    THEN [exc |-> "NotFittedError", ret |-> None]
    ELSE IF Cols(X) # Cols(st.input_weights_)
    THEN [exc |-> "ValueError", ret |-> None]
    ELSE [exc |-> "none",
          ret |-> IntDotRat(PassThroughReservoir(st, hp, X), st.output_weights_.val)]

\* ESNRegressor.predict(X)
Predict(st, hp, X) ==
    LET Shape(y_pred) ==
            IF y_pred.exc # "none" THEN y_pred
            ELSE IF st.n_outputs_ = 1 THEN [y_pred EXCEPT !.ret = Ravel(@)]
            ELSE y_pred
    IN  Shape(BasePredict(st, hp, X))

\* ------------------------------------------------------------ ESNClassifier
\* the distinct values of a 1-D array, ascending (np.unique)
RECURSIVE Ascending(_)
Ascending(S) ==
    IF S = {} THEN <<>>
    ELSE LET m == CHOOSE x \in S : \A z \in S : x <= z
         IN  <<m>> \o Ascending(S \ {m})
UniqueLabels(labels) == Ascending({labels[i] : i \in 1..Len(labels)})

\* LabelBinarizer.transform: one 0/1 column for at most two classes (all
\* zeros for a single class), one column per class for more
LabelBinarizerTransform(classes, labels) ==
    IF Len(classes) = 1 THEN Arr([i \in 1..Len(labels) |-> <<0>>])
    ELSE IF Len(classes) = 2
    THEN Arr([i \in 1..Len(labels) |-> <<IF labels[i] = classes[2] THEN 1 ELSE 0>>])
    ELSE Arr([i \in 1..Len(labels) |->
            Arr([c \in 1..Len(classes) |-> IF labels[i] = classes[c] THEN 1 ELSE 0])])

\* LabelBinarizer.inverse_transform of thresholded predictions; the labels of
\* the modelled inputs are 0 and 1, so the binarizer's y_type_ is 'binary'
LabelBinarizerInverse(classes, y_pred) ==
    Arr([i \in 1..Len(y_pred) |->
        IF Len(classes) = 1 THEN classes[1]
        ELSE IF RGt(y_pred[i], Rat(1, 2)) THEN classes[2] ELSE classes[1]])

\* ESNClassifier._validate_input: a new binarizer is fit on this call's labels
ValidateInputClassifier(st, labels) ==
    [st EXCEPT !.attrs = @ \cup {"_label_binarizer", "classes_"},
               !.classes_ = UniqueLabels(labels)]

\* ESNClassifier.fit(X, y, n_jobs); y is the 1-D array of class labels
ClassifierFit(st, hp, X, labels, n_jobs, rng1, rng2) ==
    IF InvalidHyperparameters(hp) THEN Raised(st, "ValueError")
    ELSE LET Train(init) ==
                IF init.exc # "none" THEN init
                ELSE FitInner(init.st, hp, X,
                              LabelBinarizerTransform(init.st.classes_, labels),
                              FALSE, TRUE, n_jobs, rng2)
             Validated(s1) ==
                Train(Initialize(s1, hp,
                                 LabelBinarizerTransform(s1.classes_, labels),
                                 Cols(X), rng1))
         IN  Validated(ValidateInputClassifier(st, labels))

\* a check that takes every call for the first one
AlwaysFirstCall(st, classes) == "first"

\* sklearn's _check_partial_fit_first_call(self, classes): "raise", or whether
\* this is the first call, after which classes_ is set
CheckPartialFitFirstCall(st, classes) ==
    IF st.classes_ = None /\ classes = None THEN "raise"
    ELSE IF classes = None THEN "later"
    ELSE IF st.classes_ = None THEN "first"
    ELSE IF st.classes_ # UniqueLabels(classes) THEN "raise"
    ELSE "later"

\* ESNClassifier.partial_fit(X, y, classes, update_output_weights, n_jobs):
\* the labels reach _fit as they are, as one target column
ClassifierPartialFit(st, hp, X, labels, classes, update_output_weights, n_jobs, rng) ==
    LET y == Arr([i \in 1..Len(labels) |-> <<labels[i]>>])
        Train(init) ==
            IF init.exc # "none" THEN init
            ELSE FitInner(init.st, hp, X, y, TRUE, update_output_weights, n_jobs, rng)
        FirstCall(call) ==
            IF call = "raise" THEN Raised(st, "ValueError")
            ELSE IF call = "first"
            THEN Train(Initialize(
                     [st EXCEPT !.attrs = @ \cup {"classes_"},
                                !.classes_ = UniqueLabels(classes)],
                     hp, y, Cols(X), rng))
            ELSE Train(Returned(st))
    IN  IF hp.solver \notin _OFFLINE_SOLVERS THEN Raised(st, "AttributeError")
        ELSE FirstCall(CheckPartialFitFirstCall(st, classes))

\* ESNClassifier.predict(X)
ClassifierPredict(st, hp, X) ==
    LET Decode(y_pred) ==
            IF y_pred.exc # "none" THEN y_pred
            ELSE IF "_label_binarizer" \notin st.attrs
            THEN [exc |-> "AttributeError", ret |-> None]
            ELSE [y_pred EXCEPT !.ret = LabelBinarizerInverse(st.classes_, Ravel(@))]
    IN  IF ~CheckIsFitted(st, FittedCheckAttributes)
        THEN [exc |-> "NotFittedError", ret |-> None]
        ELSE IF st.output_weights_.type # "ndarray"
        THEN [exc |-> "AttributeError", ret |-> None]
        ELSE IF Rows(st.output_weights_.val) * Cols(st.output_weights_.val) = 0
        THEN [exc |-> "NotFittedError", ret |-> None]
        ELSE Decode(BasePredict(st, hp, X))

\* the floor of predict_proba, 1e-3
ProbabilityFloor == Rat(1, 1000)

RMax(a, b) == IF RGt(b, a) THEN b ELSE a

\* predict_proba, lines 699-707: np.maximum(y_pred, 1e-3), then for a single
\* output the ravelled column p becomes the two columns [1 - p, p]
Probabilities(y_pred, n_outputs) ==
    LET Floored(i, j) == RMax(y_pred[i][j], ProbabilityFloor)
    IN  IF n_outputs = 1
        THEN Arr([i \in 1..Rows(y_pred) |->
                <<RSub(RInt(1), Floored(i, 1)), Floored(i, 1)>>])
        ELSE Arr([i \in 1..Rows(y_pred) |->
                Arr([j \in 1..Cols(y_pred) |-> Floored(i, j)])])

\* ESNClassifier.predict_proba(X)
ClassifierPredictProba(st, hp, X) ==
    LET Floor(y_pred) ==
            IF y_pred.exc # "none" THEN y_pred
            ELSE [y_pred EXCEPT !.ret = Probabilities(@, st.n_outputs_)]
    IN  Floor(BasePredict(st, hp, X))

\* ---------------------------------------------------- IncrementalRegression
\* StandardScaler(copy=False) before its first fit: no sample seen, no moments
UnfittedScaler == [n_samples_seen_ |-> 0, mean_ |-> None, var_ |-> None]

\* __init__: an unfitted scaler, no Gram matrix, no inverse, no output weights
FreshIncrementalRegression ==
    [_K |-> None, _P |-> None, _output_weights |-> None, scaler |-> UnfittedScaler]

\* StandardScaler.partial_fit(X) from the fitted state scaler: the count, the
\* mean and the (population) variance of every column over the samples seen
\* so far and the rows of X
ScalerPartialFit(scaler, X) ==
    LET n == scaler.n_samples_seen_
        total == n + Rows(X)
        Column(c) == [i \in 1..Rows(X) |-> X[i][c]]
        Squares(c) == [i \in 1..Rows(X) |-> X[i][c] * X[i][c]]
        OldMean(c) == IF n = 0 THEN RInt(0) ELSE scaler.mean_[c]
        OldVar(c) == IF n = 0 THEN RInt(0) ELSE scaler.var_[c]
        Over(r) == RMul(r, Rat(1, total))
        NewMean(c) == Over(RAdd(RMul(OldMean(c), RInt(n)), RInt(SumInt(Column(c)))))
        OldSquares(c) ==
            RMul(RAdd(OldVar(c), RMul(OldMean(c), OldMean(c))), RInt(n))
        NewVar(c, mean) ==
            RSub(Over(RAdd(OldSquares(c), RInt(SumInt(Squares(c))))), RMul(mean, mean))
    IN  [n_samples_seen_ |-> total,
         mean_ |-> Arr([c \in 1..Cols(X) |-> NewMean(c)]),
         var_ |-> Arr([c \in 1..Cols(X) |-> NewVar(c, NewMean(c))])]

\* _preprocessing, lines 139-143: with normalize set the scaler is fit on
\* X_preprocessed, on top of its state (partial_fit) or anew (fit_transform);
\* the transformed array is not assigned, and for an integer X without the
\* column of ones the scaler transforms a float copy, so X_preprocessed
\* itself stays as it is
Normalize(st, hp, X_pre, partial_normalize) ==
    IF ~hp.normalize THEN Returned(st)
    ELSE IF /\ partial_normalize
            /\ st.scaler.n_samples_seen_ > 0
            /\ Cols(X_pre) # Len(st.scaler.mean_)
    THEN Raised(st, "ValueError")
    ELSE Returned([st EXCEPT !.scaler =
            ScalerPartialFit(IF partial_normalize THEN @ ELSE UnfittedScaler, X_pre)])

\* a preprocessing that never appends the column of ones
WithoutIntercept(hp, X) == X

\* _preprocessing(X), lines 134-137: the column of ones is appended when
\* fit_intercept is set.  (With fit_intercept and normalize both set the scaler
\* would standardize the stacked float array in place; those configurations
\* are not among the modelled ones.)
Preprocessing(hp, X) ==
    IF hp.fit_intercept THEN Arr([i \in 1..Rows(X) |-> X[i] \o <<1>>]) ELSE X

\* an update that adds the batch's solution and forgets the residual
AddedWeights(W, P, X_pre, y) ==
    RatAdd(W, RatDotInt(P, MatMul(Transpose(X_pre), y)))

\* lines 83-84: the weights move by P . X^T (y - X W)
CorrectedWeights(W, P, X_pre, y) ==
    RatAdd(W, RatDot(P, IntDotRat(Transpose(X_pre), IntSubRat(y, IntDotRat(X_pre, W)))))

\* IncrementalRegression.partial_fit(X, y, partial_normalize, reset)
RegressionPartialFit(st, hp, X, y, partial_normalize, reset) ==
    LET Weights(s3, X_pre) ==
            IF s3._output_weights = None
            THEN Returned([s3 EXCEPT !._output_weights =
                     RatDotInt(s3._P, MatMul(Transpose(X_pre), y))])
            ELSE IF \/ Cols(X_pre) # Rows(s3._output_weights)
                    \/ Cols(y) # Cols(s3._output_weights)
            THEN Raised(s3, "ValueError")
            ELSE Returned([s3 EXCEPT !._output_weights =
                     CorrectedWeights(@, s3._P, X_pre, y)])
        Invert(s2, X_pre, A) ==
            IF Det(A) = 0 THEN Raised(s2, "LinAlgError")
            ELSE Weights([s2 EXCEPT !._P = Inv(A)], X_pre)
        Gram(s1, X_pre, G) ==
            IF s1._K = None
            THEN Invert([s1 EXCEPT !._K = G], X_pre,
                        MatAdd(G, MatScale(hp.alpha * hp.alpha, Eye(Cols(X_pre)))))
            ELSE IF ~SameShape(s1._K, G) THEN Raised(s1, "ValueError")
            ELSE Invert([s1 EXCEPT !._K = MatAdd(@, G)], X_pre,
                        MatAdd(MatAdd(s1._K, G),
                               MatScale(hp.alpha * hp.alpha, Eye(Cols(X_pre)))))
        Begin(s1, X_pre) == Gram(s1, X_pre, MatMul(Transpose(X_pre), X_pre))
        Preprocessed(pre, X_pre) ==
            IF pre.exc # "none" THEN pre
            ELSE Begin(IF reset THEN [pre.st EXCEPT !._K = None, !._P = None]
                       ELSE pre.st, X_pre)
        Call(X_pre) == Preprocessed(Normalize(st, hp, X_pre, partial_normalize), X_pre)
    IN  Call(Preprocessing(hp, X))

\* IncrementalRegression.fit(X, y)
RegressionFit(st, hp, X, y) == RegressionPartialFit(st, hp, X, y, FALSE, TRUE)

\* IncrementalRegression.predict(X)
RegressionPredict(st, hp, X) ==
    LET Product(pre, X_pre) ==
            IF pre.exc # "none" THEN [st |-> pre.st, exc |-> pre.exc, ret |-> None]
            ELSE IF Cols(X_pre) # Rows(st._output_weights)
            THEN [st |-> pre.st, exc |-> "ValueError", ret |-> None]
            ELSE [st |-> pre.st, exc |-> "none",
                  ret |-> IntDotRat(X_pre, st._output_weights)]
        Call(X_pre) == Product(Normalize(st, hp, X_pre, FALSE), X_pre)
    IN  IF st._output_weights = None
        THEN [st |-> st, exc |-> "NotFittedError", ret |-> None]
        ELSE Call(Preprocessing(hp, X))

\* ------------------------------------------------------------------ inputs
XValues == {0, 1}
YValues == {0, 1}

\* a sample is one row of X with its row of y
SamplesOf(n_features, n_outputs) ==
    [x : [1..n_features -> XValues], y : [1..n_outputs -> YValues]]

RECURSIVE SeqsUpTo(_, _)
SeqsUpTo(S, n) ==
    IF n = 0 THEN {<<>>}
    ELSE LET shorter == SeqsUpTo(S, n - 1)
         IN  shorter \cup {Append(b, e) : b \in {c \in shorter : Len(c) = n - 1}, e \in S}

\* the non-empty batches of at most MaxBatch samples
BatchesOf(n_features, n_outputs) ==
    SeqsUpTo(SamplesOf(n_features, n_outputs), MaxBatch) \ {<<>>}

XOf(batch) == Arr([i \in 1..Len(batch) |-> Arr(batch[i].x)])
YOf(batch) == Arr([i \in 1..Len(batch) |-> Arr(batch[i].y)])

\* ------------------------------------------------------- the state machine
NJobs == {0}

NoCall == [op |-> "none", exc |-> "none", ret |-> None]

\* the classes that share BaseExtremeLearningMachine's methods
ELM == {"ESNRegressor", "ESNClassifier"}

\* a freshly constructed estimator of a class in K with a configuration in H
Constructed(K, H, fresh) ==
    /\ kind \in K
    /\ hyper \in H
    /\ est = fresh
    /\ last = NoCall
    /\ calls = 0
    /\ absorbed = <<>>
    /\ clean = FALSE
    /\ trained = FALSE
    /\ finalized = FALSE

\* estimator.fit(X, y, n_jobs)
DoFit(batch, n_jobs) ==
    /\ kind = "ESNRegressor"
    /\ \E rng1 \in Entropy(hyper.random_state), rng2 \in Entropy(hyper.random_state) :
        LET Done(r) ==
                /\ est' = r.st
                /\ last' = [op |-> "fit", exc |-> r.exc, ret |-> None,
                            n_features |-> Cols(XOf(batch)),
                            init |-> ~InvalidHyperparameters(hyper),
                            batch |-> batch, n_jobs |-> n_jobs]
        IN  Done(Fit(est, hyper, XOf(batch), YOf(batch), n_jobs, rng1, rng2))
    /\ calls' = calls + 1
    /\ absorbed' = <<>>
    /\ clean' = FALSE
    /\ trained' = TRUE
    /\ UNCHANGED <<kind, hyper, finalized>>

\* estimator.partial_fit(X, y, update_output_weights, n_jobs)
DoPartialFit(batch, update_output_weights, n_jobs) ==
    /\ kind = "ESNRegressor"
    /\ \E rng \in Entropy(hyper.random_state) :
        LET Done(r, first) ==
                /\ est' = r.st
                /\ last' = [op |-> "partial_fit", exc |-> r.exc, ret |-> None,
                            update |-> update_output_weights,
                            n_features |-> Cols(XOf(batch)),
                            init |-> (first /\ hyper.solver \in _OFFLINE_SOLVERS),
                            batch |-> batch, n_jobs |-> n_jobs]
                /\ clean' = (r.exc = "none" /\ (first \/ clean))
                /\ absorbed' = IF ~clean' THEN <<>>
                               ELSE IF first THEN batch
                               ELSE absorbed \o batch
        IN  Done(PartialFit(est, hyper, XOf(batch), YOf(batch),
                            update_output_weights, n_jobs, rng),
                 "input_weights_" \notin est.attrs)
    /\ calls' = calls + 1
    /\ trained' = TRUE
    /\ UNCHANGED <<kind, hyper, finalized>>

\* estimator.finalize(n_jobs), of either ELM class
DoFinalize(n_jobs) ==
    /\ kind \in ELM
    /\ LET Done(r) ==
               /\ est' = r.st
               /\ last' = [op |-> "finalize", exc |-> r.exc, ret |-> None]
               /\ clean' = (r.exc = "none" /\ clean)
               /\ absorbed' = IF clean' THEN absorbed ELSE <<>>
               /\ finalized' = (finalized \/ r.exc = "none")
       IN  Done(Finalize(est, hyper, n_jobs))
    /\ calls' = calls + 1
    /\ UNCHANGED <<kind, hyper, trained>>

\* estimator.predict(X)
DoPredict(X) ==
    /\ kind = "ESNRegressor"
    /\ LET Done(r) == last' = [op |-> "predict", exc |-> r.exc, ret |-> r.ret]
       IN  Done(Predict(est, hyper, X))
    /\ calls' = calls + 1
    /\ UNCHANGED <<kind, hyper, est, absorbed, clean, trained, finalized>>

\* the 1-D array of class labels of a batch
LabelsOf(batch) == Arr([i \in 1..Len(batch) |-> batch[i].y[1]])

\* classifier.fit(X, y, n_jobs)
DoClassifierFit(batch, n_jobs) ==
    /\ kind = "ESNClassifier"
    /\ \E rng1 \in Entropy(hyper.random_state), rng2 \in Entropy(hyper.random_state) :
        LET Done(r) ==
                /\ est' = r.st
                /\ last' = [op |-> "fit", exc |-> r.exc, ret |-> None]
        IN  Done(ClassifierFit(est, hyper, XOf(batch), LabelsOf(batch), n_jobs, rng1, rng2))
    /\ calls' = calls + 1
    /\ absorbed' = <<>>
    /\ clean' = FALSE
    /\ trained' = TRUE
    /\ UNCHANGED <<kind, hyper, finalized>>

\* classifier.partial_fit(X, y, classes, update_output_weights, n_jobs)
DoClassifierPartialFit(batch, classes, update_output_weights, n_jobs) ==
    /\ kind = "ESNClassifier"
    /\ \E rng \in Entropy(hyper.random_state) :
        LET Done(r) ==
                /\ est' = r.st
                /\ last' = [op |-> "partial_fit", exc |-> r.exc, ret |-> None,
                            update |-> update_output_weights]
        IN  Done(ClassifierPartialFit(est, hyper, XOf(batch), LabelsOf(batch), classes,
                                      update_output_weights, n_jobs, rng))
    /\ calls' = calls + 1
    /\ absorbed' = <<>>
    /\ clean' = FALSE
    /\ trained' = TRUE
    /\ UNCHANGED <<kind, hyper, finalized>>

\* classifier.predict_proba(X)
DoClassifierPredictProba(X) ==
    /\ kind = "ESNClassifier"
    /\ LET Done(r) == last' = [op |-> "predict_proba", exc |-> r.exc, ret |-> r.ret]
       IN  Done(ClassifierPredictProba(est, hyper, X))
    /\ calls' = calls + 1
    /\ UNCHANGED <<kind, hyper, est, absorbed, clean, trained, finalized>>

\* lines 699-707 of predict_proba applied to a prediction y_pred of n_outputs
\* columns, as super().predict would return it
DoProbabilities(y_pred, n_outputs) ==
    /\ kind = "ESNClassifier"
    /\ last' = [op |-> "probabilities", exc |-> "none",
                ret |-> Probabilities(y_pred, n_outputs), y_pred |-> y_pred]
    /\ calls' = calls + 1
    /\ UNCHANGED <<kind, hyper, est, absorbed, clean, trained, finalized>>

\* classifier.predict(X)
DoClassifierPredict(X) ==
    /\ kind = "ESNClassifier"
    /\ LET Done(r) == last' = [op |-> "predict", exc |-> r.exc, ret |-> r.ret]
       IN  Done(ClassifierPredict(est, hyper, X))
    /\ calls' = calls + 1
    /\ UNCHANGED <<kind, hyper, est, absorbed, clean, trained, finalized>>

\* regression.partial_fit(X, y, reset), partial_normalize at its default, True
DoRegressionPartialFit(batch, reset) ==
    /\ kind = "IncrementalRegression"
    /\ LET Done(r) ==
               /\ est' = r.st
               /\ last' = [op |-> "partial_fit", exc |-> r.exc, ret |-> None,
                           reset |-> reset, batch |-> batch]
               /\ clean' = (r.exc = "none" /\ (~trained \/ (clean /\ ~reset)))
               /\ absorbed' = IF r.exc # "none" THEN <<>>
                              ELSE IF reset \/ ~trained THEN batch
                              ELSE IF absorbed = <<>> THEN <<>>
                              ELSE absorbed \o batch
       IN  Done(RegressionPartialFit(est, hyper, XOf(batch), YOf(batch), TRUE, reset))
    /\ calls' = calls + 1
    /\ trained' = TRUE
    /\ UNCHANGED <<kind, hyper, finalized>>

\* regression.fit(X, y)
DoRegressionFit(batch) ==
    /\ kind = "IncrementalRegression"
    /\ LET Done(r) ==
               /\ est' = r.st
               /\ last' = [op |-> "fit", exc |-> r.exc, ret |-> None,
                           reset |-> TRUE, batch |-> batch]
               /\ clean' = (r.exc = "none" /\ ~trained)
               /\ absorbed' = IF r.exc = "none" THEN batch ELSE <<>>
       IN  Done(RegressionFit(est, hyper, XOf(batch), YOf(batch)))
    /\ calls' = calls + 1
    /\ trained' = TRUE
    /\ UNCHANGED <<kind, hyper, finalized>>

\* regression.predict(X)
DoRegressionPredict(X) ==
    /\ kind = "IncrementalRegression"
    /\ LET Done(r) ==
               /\ est' = r.st
               /\ last' = [op |-> "predict", exc |-> r.exc, ret |-> r.ret, X |-> X]
       IN  Done(RegressionPredict(est, hyper, X))
    /\ calls' = calls + 1
    /\ UNCHANGED <<kind, hyper, absorbed, clean, trained, finalized>>

\* ---- the life cycle of one estimator: every method, in any order, on two
\* batches: one sample (X^T X is singular) and two samples (it is not)
Hyperparameters ==
    [k_in : {1}, input_scaling : {1}, bias : {1}, reservoir_size : {1},
     reservoir_activation : {"identity"},
     solver : {"pinv", "ridge"}, beta : {1},
     random_state : {<<>>, <<1>>}]

\* the constructor arguments of IncrementalRegression (__init__, lines 41-44)
RegressionHyperparameters ==
    [alpha : {0, 1}, fit_intercept : BOOLEAN, normalize : {FALSE}]

Sample(x, y) == [x |-> <<x>>, y |-> <<y>>]
Batches == {<<Sample(1, 1)>>, <<Sample(0, 1), Sample(1, 0)>>}
Queries == {XOf(batch) : batch \in Batches}
\* the classes argument of the classifier's partial_fit: None or the labels
ClassesArguments == {None, <<0, 1>>}

Init ==
    \/ Constructed(ELM, Hyperparameters, FreshEstimator)
    \/ Constructed({"IncrementalRegression"}, RegressionHyperparameters,
                   FreshIncrementalRegression)

\* one more call may be made on the estimator
MoreCalls == calls < MaxCalls

Next ==
    \/ \E batch \in Batches, n_jobs \in NJobs : MoreCalls /\ DoFit(batch, n_jobs)
    \/ \E batch \in Batches, u \in BOOLEAN, n_jobs \in NJobs :
            MoreCalls /\ DoPartialFit(batch, u, n_jobs)
    \/ \E n_jobs \in NJobs : MoreCalls /\ DoFinalize(n_jobs)
    \/ \E X \in Queries : MoreCalls /\ DoPredict(X)
    \/ \E batch \in Batches, n_jobs \in NJobs : MoreCalls /\ DoClassifierFit(batch, n_jobs)
    \/ \E batch \in Batches, classes \in ClassesArguments, u \in BOOLEAN,
          n_jobs \in NJobs :
            MoreCalls /\ DoClassifierPartialFit(batch, classes, u, n_jobs)
    \/ \E X \in Queries : MoreCalls /\ DoClassifierPredict(X)
    \/ \E batch \in Batches, reset \in BOOLEAN :
            MoreCalls /\ DoRegressionPartialFit(batch, reset)
    \/ \E batch \in Batches : MoreCalls /\ DoRegressionFit(batch)
    \/ \E X \in Queries : MoreCalls /\ DoRegressionPredict(X)

Spec == Init /\ [][Next]_vars

\* ---- a stream of batches: partial_fit on every batch of at most MaxBatch
\* samples with one feature and one target column
StreamHyperparameters ==
    [k_in : {1}, input_scaling : {1}, bias : {1}, reservoir_size : {1},
     reservoir_activation : {"identity", "relu"},
     solver : {"pinv", "ridge"}, beta : {1},
     random_state : {<<2>>}]

StreamBatches == BatchesOf(1, 1)

InitStream == Constructed({"ESNRegressor"}, StreamHyperparameters, FreshEstimator)

NextStream ==
    \E batch \in StreamBatches, u \in BOOLEAN, n_jobs \in NJobs :
        calls < MaxStreamCalls /\ DoPartialFit(batch, u, n_jobs)

SpecStream == InitStream /\ [][NextStream]_vars

\* ---- parallel solves: the regressor's methods with n_jobs = 0 and n_jobs > 0
\* on batches with two target columns
ParallelBetas == {0, 1}
ParallelHyperparameters ==
    [k_in : {1}, input_scaling : {1}, bias : {1}, reservoir_size : {1},
     reservoir_activation : {"identity"},
     solver : {"pinv", "ridge", "lasso"}, beta : ParallelBetas,
     random_state : {<<1>>}]

ParallelJobs == {0, 1}
ParallelBatches ==
    {<<[x |-> <<1>>, y |-> <<1, 0>>]>>,
     <<[x |-> <<0>>, y |-> <<1, 0>>], [x |-> <<1>>, y |-> <<1, 1>>]>>}
ParallelQueries == {XOf(batch) : batch \in ParallelBatches}

InitParallel == Constructed({"ESNRegressor"}, ParallelHyperparameters, FreshEstimator)

MoreParallelCalls == calls < MaxParallelCalls

NextParallel ==
    \/ \E batch \in ParallelBatches, n_jobs \in ParallelJobs :
            MoreParallelCalls /\ DoFit(batch, n_jobs)
    \/ \E batch \in ParallelBatches, u \in BOOLEAN, n_jobs \in ParallelJobs :
            MoreParallelCalls /\ DoPartialFit(batch, u, n_jobs)
    \/ \E n_jobs \in ParallelJobs : MoreParallelCalls /\ DoFinalize(n_jobs)
    \/ \E X \in ParallelQueries : MoreParallelCalls /\ DoPredict(X)

SpecParallel == InitParallel /\ [][NextParallel]_vars

\* ---- class probabilities: the classifier's fit and predict_proba, and the
\* floor of predict_proba on predictions of one and of two output columns
MaxProbaCalls == 2

PredictedValues == {RInt(0), Rat(1, 2), RInt(1), RInt(2)}

\* the predictions of at most n_samples samples with n_outputs columns
Predictions(n_samples, n_outputs) ==
    SeqsUpTo([1..n_outputs -> PredictedValues], n_samples) \ {<<>>}

PredictionsOfOne == Predictions(2, 1)
PredictionsOfTwo == Predictions(1, 2)

InitProba == Constructed({"ESNClassifier"}, Hyperparameters, FreshEstimator)

MoreProbaCalls == calls < MaxProbaCalls

NextProba ==
    \/ \E batch \in Batches, n_jobs \in NJobs :
            MoreProbaCalls /\ DoClassifierFit(batch, n_jobs)
    \/ \E X \in Queries : MoreProbaCalls /\ DoClassifierPredictProba(X)
    \/ \E y_pred \in PredictionsOfOne : MoreProbaCalls /\ DoProbabilities(y_pred, 1)
    \/ \E y_pred \in PredictionsOfTwo : MoreProbaCalls /\ DoProbabilities(y_pred, 2)

SpecProba == InitProba /\ [][NextProba]_vars

\* ---- the feature scaler: IncrementalRegression with and without normalize,
\* on integer inputs without the column of ones
MaxScalerCalls == 3

ScalerHyperparameters ==
    [alpha : {0, 1}, fit_intercept : {FALSE}, normalize : BOOLEAN]

InitScaler ==
    Constructed({"IncrementalRegression"}, ScalerHyperparameters,
                FreshIncrementalRegression)

MoreScalerCalls == calls < MaxScalerCalls

NextScaler ==
    \/ \E batch \in Batches, reset \in BOOLEAN :
            MoreScalerCalls /\ DoRegressionPartialFit(batch, reset)
    \/ \E batch \in Batches : MoreScalerCalls /\ DoRegressionFit(batch)
    \/ \E X \in Queries : MoreScalerCalls /\ DoRegressionPredict(X)

SpecScaler == InitScaler /\ [][NextScaler]_vars

\* ---- configurations: the regressor's fit and partial_fit under valid and
\* invalid hyperparameters, on batches of one and of two input features
MaxConfigCalls == 3

ValidConfigurations ==
    [k_in : {1, 2, 3}, input_scaling : {1}, bias : {1}, reservoir_size : {1, 2},
     reservoir_activation : {"identity"},
     solver : {"ridge"}, beta : {0, 1},
     random_state : {<<1>>}]

BaseConfiguration ==
    [k_in |-> 1, input_scaling |-> 1, bias |-> 1, reservoir_size |-> 1,
     reservoir_activation |-> "identity", solver |-> "ridge", beta |-> 1,
     random_state |-> <<1>>]

\* one hyperparameter outside the range _validate_hyperparameters accepts
InvalidConfigurations ==
    {[BaseConfiguration EXCEPT !.reservoir_size = -1],
     [BaseConfiguration EXCEPT !.input_scaling = 0],
     [BaseConfiguration EXCEPT !.k_in = 0],
     [BaseConfiguration EXCEPT !.bias = -1],
     [BaseConfiguration EXCEPT !.beta = -1],
     [BaseConfiguration EXCEPT !.reservoir_activation = "sigmoid"],
     [BaseConfiguration EXCEPT !.solver = "sgd"]}

ConfigBatches ==
    {<<[x |-> <<1>>, y |-> <<1>>]>>,
     <<[x |-> <<1, 0>>, y |-> <<1>>]>>,
     <<[x |-> <<0, 1>>, y |-> <<0>>], [x |-> <<1, 1>>, y |-> <<1>>]>>}

InitConfig ==
    Constructed({"ESNRegressor"}, ValidConfigurations \cup InvalidConfigurations,
                FreshEstimator)

MoreConfigCalls == calls < MaxConfigCalls

NextConfig ==
    \/ \E batch \in ConfigBatches, n_jobs \in NJobs :
            MoreConfigCalls /\ DoFit(batch, n_jobs)
    \/ \E batch \in ConfigBatches, u \in BOOLEAN, n_jobs \in NJobs :
            MoreConfigCalls /\ DoPartialFit(batch, u, n_jobs)

SpecConfig == InitConfig /\ [][NextConfig]_vars

\* ------------------------------------------- properties of a stream of batches
\* the seed of an integer random_state
Seed == hyper.random_state[1]

\* the reservoir states of the samples D under the estimator's reservoir
StatesOf(D) == PassThroughReservoir(est, hyper, XOf(D))

\* C1: for the same integer random_state, solver and beta, a fresh estimator
\* trained by one fit(D) ends with the output weights (and sample count) of a
\* fresh estimator trained by partial_fit over any split of D into consecutive
\* non-empty batches.
BatchIncrementalEquivalence ==
    (clean /\ hyper.random_state # None /\ est.output_weights_.type = "ndarray") =>
        LET Same(batch) ==
                /\ batch.exc = "none"
                /\ batch.st.output_weights_ = est.output_weights_
                /\ batch.st._n_samples = est._n_samples
                /\ batch.st.input_weights_ = est.input_weights_
                /\ batch.st.bias_weights_ = est.bias_weights_
        IN  Same(Fit(FreshEstimator, hyper, XOf(absorbed), YOf(absorbed), 0, Seed, Seed))

\* two batches were absorbed and the second call solved for the weights
SplitDatasetSolved ==
    /\ clean
    /\ calls = 2
    /\ Len(absorbed) >= 2
    /\ est.output_weights_.type = "ndarray"
    /\ NdarrayAny(est.output_weights_.val)

\* C2: after any sequence of successful partial_fit calls since the last
\* initialization, _xTx is the sum over the absorbed batches of state^T state,
\* _xTy the sum of state^T y, and _n_samples the number of absorbed samples.
SufficientStatistics ==
    (clean /\ est._xTx # None) =>
        LET Sums(R) ==
                /\ est._xTx = MatMul(Transpose(R), R)
                /\ est._xTy = MatMul(Transpose(R), YOf(absorbed))
        IN  /\ Sums(StatesOf(absorbed))
            /\ est._n_samples = Len(absorbed)

\* two batches were absorbed, the statistics are not zero
TwoBatchesAbsorbed ==
    /\ clean
    /\ calls = 2
    /\ Len(absorbed) >= 2
    /\ est._xTx # None
    /\ \E i \in 1..Rows(est._xTy) : est._xTy[i][1] # 0

\* C3: after any sequence of partial_fit calls on a fresh estimator, the
\* running activation mean and variance of each hidden unit are the mean and
\* variance of its activations over the concatenation of the absorbed batches.
StreamingMoments ==
    (clean /\ est._activations_mean # None) =>
        LET Moments(R) ==
                /\ est._activations_mean = DropFirst(ColMean(R))
                /\ est._activations_var = DropFirst(ColVar(R))
        IN  Moments(StatesOf(absorbed))

\* ---------------------------------------------- properties of the life cycle
\* the statistics S_xx and S_xy are present / discarded
StatisticsPresent == est._xTx # None /\ est._xTy # None
StatisticsDiscarded == est._xTx = None /\ est._xTy = None

\* the call that has just been made returned / raised
ReturnedFrom(op) == last.op = op /\ last.exc = "none"

\* C4: after finalize() has returned, the statistics are empty, and every
\* subsequent partial_fit call on the estimator raises an error instead of
\* returning a model.
FinalizeIrreversible ==
    (kind \in ELM /\ finalized) =>
        /\ ReturnedFrom("finalize") => StatisticsDiscarded
        /\ last.op = "partial_fit" => last.exc # "none"

\* C5, as stated: after fit(X, y) returns, S_xx and S_xy are still present.
StatisticsRetainedAfterFit ==
    (kind \in ELM /\ ReturnedFrom("fit")) => StatisticsPresent

\* C5, amended: fit discards S_xx and S_xy before it returns; only partial_fit
\* leaves them on the estimator, and there they stay until a finalize() or a
\* fit() returns.
StatisticsReleasedByFit ==
    /\ [](kind \in ELM =>
            /\ ReturnedFrom("fit") => StatisticsDiscarded
            /\ ReturnedFrom("partial_fit") => StatisticsPresent)
    /\ [][(kind \in ELM /\ StatisticsPresent /\ ~StatisticsPresent') =>
            (last'.exc = "none" /\ last'.op \in {"fit", "finalize"})]_vars

\* fit has returned and left no statistics behind
FitReleasedStatistics ==
    /\ kind \in ELM
    /\ ReturnedFrom("fit")
    /\ StatisticsDiscarded
    /\ est.output_weights_.type = "ndarray"

\* C6: whenever finalize() returns, output weights exist, and S_xx, S_xy and
\* the activation moments are all discarded.
FinalizePostcondition ==
    (kind \in ELM /\ ReturnedFrom("finalize")) =>
        /\ est.output_weights_.type # "NoneType"
        /\ StatisticsDiscarded
        /\ est._activations_mean = None /\ est._activations_var = None
        /\ est.activations_mean = None /\ est.activations_var = None

\* the training state: sample count, S_xx, S_xy, output weights and reservoir
TrainingState ==
    <<est._n_samples, est._xTx, est._xTy, est.output_weights_,
      est.input_weights_, est.bias_weights_>>

\* C7: a fit or partial_fit call that raises an error leaves the training
\* state exactly as it was before the call.
AllOrNothing ==
    [][(/\ kind \in ELM
        /\ calls' = calls + 1
        /\ last'.op \in {"fit", "partial_fit"}
        /\ last'.exc # "none") => TrainingState' = TrainingState]_vars

\* C8: after a successful fit of an ESNRegressor with solver 'ridge',
\* output_weights_ has shape (reservoir_size + 1, 1) and predict returns, for
\* every sample, reservoir_state . output_weights_, without raising.
PredictAfterFit ==
    [][(/\ kind = "ESNRegressor"
        /\ hyper.solver = "ridge"
        /\ ReturnedFrom("fit")
        /\ calls' = calls + 1
        /\ last'.op = "predict") =>
            /\ est.output_weights_.type = "ndarray"
            /\ Rows(est.output_weights_.val) = hyper.reservoir_size + 1
            /\ Cols(est.output_weights_.val) = 1
            /\ last'.exc = "none"
            /\ \E X \in Queries :
                last'.ret = Ravel(IntDotRat(PassThroughReservoir(est, hyper, X),
                                            est.output_weights_.val))]_vars

\* C9: predict on a freshly constructed, never-trained estimator (regressor,
\* classifier, IncrementalRegression) raises a not-fitted error and returns
\* no result.
NotFittedOnFresh ==
    (last.op = "predict" /\ ~trained) =>
        (last.exc = "NotFittedError" /\ last.ret = None)

\* predict was called on a fresh IncrementalRegression
FreshRegressionPredicted ==
    /\ kind = "IncrementalRegression"
    /\ ~trained
    /\ last.op = "predict"
    /\ est = FreshIncrementalRegression

\* C10: an initialized estimator that has no output weights, the last
\* partial_fit having been called with update_output_weights=False, raises a
\* not-fitted error on predict, and no other error.
NotFittedWithoutWeights ==
    (/\ kind \in ELM
     /\ last.op = "predict"
     /\ "input_weights_" \in est.attrs
     /\ est.output_weights_.type = "NoneType") => last.exc = "NotFittedError"

\* predict was called after partial_fit calls that absorbed batches without
\* solving for the weights
PredictedWithoutWeights ==
    /\ kind = "ESNRegressor"
    /\ clean /\ ~finalized
    /\ Len(absorbed) >= 1
    /\ est.output_weights_.type = "NoneType"
    /\ last.op = "predict"

\* the solver's solution over the samples D under the estimator's reservoir:
\* (S_xx + lambda I)^-1 S_xy with lambda = beta^2 Len(D) for 'ridge', 0 otherwise
SolutionOver(D) ==
    LET Solve(A, S_xy) == IF Det(A) = 0 THEN None ELSE RatDotInt(Inv(A), S_xy)
        Regularize(S_xx, R) ==
            Solve(IF hyper.solver = "ridge"
                  THEN MatAdd(S_xx, MatScale(hyper.beta * hyper.beta * Len(D),
                                             Eye(Rows(S_xx))))
                  ELSE S_xx,
                  MatMul(Transpose(R), YOf(D)))
        Gram(R) == Regularize(MatMul(Transpose(R), R), R)
    IN  Gram(StatesOf(D))

\* C11: after partial_fit(update_output_weights=False) returns, output_weights_
\* is None while the statistics have absorbed the batch; after a partial_fit
\* with update_output_weights=True, or after finalize(), output_weights_ is the
\* solver's solution over all batches absorbed since initialization.
OptOutOfWeightUpdates ==
    (kind = "ESNRegressor" /\ clean) =>
        LET Solved == est.output_weights_ =
                          [type |-> "ndarray", val |-> SolutionOver(absorbed)]
            Absorbed(R) ==
                /\ est._n_samples = Len(absorbed)
                /\ est._xTx = MatMul(Transpose(R), R)
                /\ est._xTy = MatMul(Transpose(R), YOf(absorbed))
        IN  /\ (ReturnedFrom("partial_fit") /\ ~last.update) =>
                    (est.output_weights_ = NoWeights /\ Absorbed(StatesOf(absorbed)))
            /\ (ReturnedFrom("partial_fit") /\ last.update) => Solved
            /\ ReturnedFrom("finalize") => Solved

\* finalize() returned after partial_fit had absorbed two batches
FinalizedAfterOptOut ==
    /\ kind = "ESNRegressor"
    /\ clean
    /\ calls = 3
    /\ Len(absorbed) = 3
    /\ last.op = "finalize"
    /\ est.output_weights_.type = "ndarray"

\* ------------------------------------- properties of IncrementalRegression
\* the closed-form ridge solution (X^T X + alpha^2 I)^-1 X^T y over the samples
\* D, the intercept column appended when fit_intercept is set
ClosedForm(D) ==
    LET Solve(X_pre) ==
            RatDotInt(Inv(MatAdd(MatMul(Transpose(X_pre), X_pre),
                                 MatScale(hyper.alpha * hyper.alpha, Eye(Cols(X_pre))))),
                      MatMul(Transpose(X_pre), YOf(D)))
    IN  Solve(IF hyper.fit_intercept
              THEN Arr([i \in 1..Len(D) |-> D[i].x \o <<1>>])
              ELSE XOf(D))

\* C12: on a fresh IncrementalRegression, after partial_fit was called
\* batch-wise over any split of a dataset, the output weights equal the
\* closed-form full-batch ridge solution over the concatenated data.
IncrementalExactness ==
    (kind = "IncrementalRegression" /\ clean) =>
        est._output_weights = ClosedForm(absorbed)

\* partial_fit has absorbed a second batch
SecondBatchFitted ==
    /\ kind = "IncrementalRegression"
    /\ clean
    /\ Len(absorbed) = 3
    /\ last.op = "partial_fit"
    /\ est._output_weights # None

\* the call that has just returned began a new fit: fit, or partial_fit with
\* reset=True
ReturnedFromReset ==
    \/ ReturnedFrom("fit")
    \/ ReturnedFrom("partial_fit") /\ last.reset

\* C13: fit(X, y), and partial_fit(X, y, reset=True), yield the output weights
\* that the same call yields on a freshly constructed IncrementalRegression,
\* whatever calls came earlier.
ResetDropsPriorFits ==
    (kind = "IncrementalRegression" /\ ReturnedFromReset) =>
        est._output_weights = ClosedForm(absorbed)

\* ------------------------------------------------ properties of the solver
\* C14: for the same statistics, the output weights computed with n_jobs > 0
\* are the matrix computed with n_jobs = 0: same shape
\* (reservoir_size + 1, n_outputs), same entries.
ParallelSolveEquivalence ==
    (/\ kind = "ESNRegressor"
     /\ ReturnedFrom("partial_fit") /\ last.update
     /\ StatisticsPresent) =>
        LET Same(serial) ==
                /\ serial.exc = "none"
                /\ est.output_weights_.val = serial.st.output_weights_.val
        IN  /\ Rows(est.output_weights_.val) = hyper.reservoir_size + 1
            /\ Cols(est.output_weights_.val) = est.n_outputs_
            /\ Same(ComputeOutputWeights(est, hyper, 0))

\* ------------------------------------- properties of the configurations
\* C15: a fit call on an estimator configured with a hyperparameter outside
\* its range, or with an unsupported activation or solver name, raises
\* ValueError and leaves every attribute of the estimator as it was: no
\* reservoir weight, statistic, sample count or output weight is created or
\* changed.
EagerErrorsOnFit ==
    [][(kind = "ESNRegressor" /\ last'.op = "fit" /\ calls' = calls + 1
            /\ hyper \in InvalidConfigurations)
        => (last'.exc = "ValueError" /\ est' = est)]_vars

\* a fit that was rejected on an estimator that an earlier partial_fit had
\* already given a reservoir, statistics and samples
InvalidFitRejected ==
    /\ kind = "ESNRegressor"
    /\ hyper \in InvalidConfigurations
    /\ last.op = "fit"
    /\ last.exc = "ValueError"
    /\ "_xTx" \in est.attrs
    /\ est._n_samples > 0

\* C16: a first partial_fit call on an estimator configured with a
\* hyperparameter outside its range, or with an unrecognized activation name,
\* raises an error, and when it has raised the estimator has no reservoir
\* weights, no statistics and has counted no sample.
EagerErrorsOnPartialFit ==
    [][(kind = "ESNRegressor" /\ last'.op = "partial_fit" /\ calls' = calls + 1
            /\ est = FreshEstimator /\ hyper \in InvalidConfigurations)
        => /\ last'.exc # "none"
           /\ est'.attrs \cap {"input_weights_", "bias_weights_", "_xTx", "_xTy"} = {}
           /\ est'._n_samples = 0]_vars

\* C17: whenever a fit or partial_fit call initializes the reservoir for an
\* input with fewer features than k_in, the call raises an error and the
\* estimator's input weights are what they were before the call (none on a
\* fresh estimator).
InitializationRejectsWideKIn ==
    [][(kind = "ESNRegressor" /\ last'.op \in {"fit", "partial_fit"}
            /\ calls' = calls + 1 /\ last'.init
            /\ hyper \in ValidConfigurations /\ hyper.k_in > last'.n_features)
        => /\ last'.exc # "none"
           /\ est'.input_weights_ = est.input_weights_
           /\ "input_weights_" \in est'.attrs <=> "input_weights_" \in est.attrs]_vars

\* C18: whenever the estimator has input weights, every hidden unit's row of
\* input_weights_ has exactly k_in nonzero entries (so they lie at k_in distinct
\* feature columns), and k_in is at most the number of input features.
SparsityInvariant ==
    (kind = "ESNRegressor" /\ "input_weights_" \in est.attrs) =>
        LET NonZeros(row) == {c \in 1..Len(row) : row[c] # 0}
        IN  \A en \in 1..Rows(est.input_weights_) :
                /\ Cardinality(NonZeros(est.input_weights_[en])) = hyper.k_in
                /\ hyper.k_in <= Len(est.input_weights_[en])

\* ------------------------------------------------ properties of the seed
\* C19: with an integer random_state, every call that initializes the
\* reservoir and returns leaves the input and bias weights that the seed
\* determines for (n_features, reservoir_size, k_in), and every fit(X, y) that
\* returns leaves the reservoir, the sample count and the output weights that
\* fit(X, y) leaves on a freshly constructed estimator, whatever was called
\* on the estimator before.
FitDeterminism ==
    [][(kind = "ESNRegressor" /\ calls' = calls + 1 /\ hyper.random_state # <<>>
            /\ last'.op \in {"fit", "partial_fit"} /\ last'.exc = "none")
        => LET seed == hyper.random_state[1]
               SameReservoir(w) ==
                    /\ est'.input_weights_ = w.input_weights_init
                    /\ est'.bias_weights_ = w.bias_weights_init
               SameFit(fresh) ==
                    /\ fresh.exc = "none"
                    /\ est'.input_weights_ = fresh.st.input_weights_
                    /\ est'.bias_weights_ = fresh.st.bias_weights_
                    /\ est'._n_samples = fresh.st._n_samples
                    /\ est'.output_weights_ = fresh.st.output_weights_
           IN  /\ last'.init => SameReservoir(InitWeights(hyper, last'.n_features, seed))
               /\ last'.op = "fit" =>
                    SameFit(Fit(FreshEstimator, hyper, XOf(last'.batch),
                                YOf(last'.batch), 0, seed, seed))]_vars

\* a fit that returned as the third call on an estimator with a fixed seed
FitAfterHistory ==
    /\ kind = "ESNRegressor"
    /\ hyper.random_state # <<>>
    /\ calls = 3
    /\ ReturnedFrom("fit")
    /\ est._n_samples = Len(last.batch)
    /\ est.output_weights_.type = "ndarray"

\* ------------------------------------------ properties of the ridge solver
\* C20: with solver 'ridge', the output weights that a partial_fit call has
\* just computed are (S_xx + lambda I)^-1 S_xy for the statistics S_xx, S_xy of
\* the samples absorbed since the last initialization and lambda = beta^2 times
\* the number of those samples (the corner entry of S_xx, the sum of the
\* squared ones column, counts them); with beta = 0 they are the weights the
\* 'pinv' solver computes from the same statistics.
RidgeStrength ==
    (kind = "ESNRegressor" /\ hyper.solver = "ridge" /\ ReturnedFrom("partial_fit")
        /\ last.update /\ StatisticsPresent) =>
        LET Ridge(S_xx, S_xy, n) ==
                RatDotInt(Inv(MatAdd(S_xx,
                    MatScale(hyper.beta * hyper.beta * n, Eye(Rows(S_xx))))), S_xy)
            AsPinv(solved) ==
                solved.exc = "none" /\ est.output_weights_ = solved.st.output_weights_
        IN  /\ est.output_weights_.val = Ridge(est._xTx, est._xTy, est._xTx[1][1])
            /\ hyper.beta = 0 =>
                    AsPinv(ComputeOutputWeights(est, [hyper EXCEPT !.solver = "pinv"], 0))

\* --------------------------------------- properties of the solver fallback
\* the outcome of the call that has just been made, had the estimator been
\* configured with solver 'pinv' and regularization beta
PinvOutcome(beta) ==
    LET pinv == [hyper EXCEPT !.solver = "pinv", !.beta = beta]
        seed == hyper.random_state[1]
    IN  IF last'.op = "fit"
        THEN Fit(est, pinv, XOf(last'.batch), YOf(last'.batch), last'.n_jobs, seed, seed)
        ELSE PartialFit(est, pinv, XOf(last'.batch), YOf(last'.batch),
                        last'.update, last'.n_jobs, seed)

LassoCall ==
    /\ kind = "ESNRegressor"
    /\ hyper.solver = "lasso"
    /\ hyper.random_state # <<>>
    /\ calls' = calls + 1
    /\ last'.op \in {"fit", "partial_fit"}

\* C21 as amended: with solver 'lasso' every fit and partial_fit call has the
\* outcome of the same call under solver 'pinv', for every beta: it raises
\* exactly when the 'pinv' call raises (a singular S_xx, statistics released
\* by finalize) and leaves the same estimator state, output weights included.
LassoFallsBackToPinv ==
    [][LassoCall =>
        \A beta \in ParallelBetas :
            LET Same(r) == last'.exc = r.exc /\ est' = r.st
            IN  Same(PinvOutcome(beta))]_vars

\* a partial_fit under 'lasso' with beta = 1 that computed output weights from
\* two batches
LassoWeightsComputed ==
    /\ kind = "ESNRegressor"
    /\ hyper.solver = "lasso"
    /\ hyper.beta = 1
    /\ calls = 2
    /\ ReturnedFrom("partial_fit")
    /\ last.update
    /\ est._n_samples = 3
    /\ est.output_weights_.type = "ndarray"

\* C21: with solver 'lasso' fit and partial_fit raise no error and leave the
\* output weights that solver 'pinv' leaves on the same call, for every beta.
LassoNeverRaises ==
    [][LassoCall =>
        /\ last'.exc = "none"
        /\ \A beta \in ParallelBetas :
            est'.output_weights_ = PinvOutcome(beta).st.output_weights_]_vars

\* ------------------------------------------- properties of the classifier
\* C22: whenever an ESNClassifier has output weights, it has a label binarizer
\* that was fit on the class labels, and a partial_fit call on a classifier
\* that has a fitted binarizer leaves the binarizer and its classes as they are.
LabelCodecFit ==
    /\ [](kind = "ESNClassifier" /\ est.output_weights_.type # "NoneType"
            => "_label_binarizer" \in est.attrs /\ est.classes_ # None)
    /\ [][(kind = "ESNClassifier" /\ last'.op = "partial_fit" /\ calls' = calls + 1
                /\ "_label_binarizer" \in est.attrs)
            => ("_label_binarizer" \in est'.attrs /\ est'.classes_ = est.classes_)]_vars

\* ---------------------------------------------- properties of the reservoir
\* C23: once an ELM estimator has a reservoir, a partial_fit, finalize or
\* predict call leaves input_weights_ and bias_weights_ exactly as they were.
ReservoirImmutable ==
    [][(kind \in ELM /\ "input_weights_" \in est.attrs /\ calls' = calls + 1
            /\ last'.op \in {"partial_fit", "finalize", "predict"})
        => /\ {"input_weights_", "bias_weights_"} \subseteq est'.attrs
           /\ est'.input_weights_ = est.input_weights_
           /\ est'.bias_weights_ = est.bias_weights_]_vars

\* a classifier with an unseeded generator whose second partial_fit call
\* returned, having absorbed three samples in the two calls
SecondPartialFitKeptReservoir ==
    /\ kind = "ESNClassifier"
    /\ hyper.random_state = <<>>
    /\ calls = 2
    /\ ReturnedFrom("partial_fit")
    /\ est._n_samples = 3

\* C24: a partial_fit call whose X has another number of features than the
\* stored reservoir raises no error and leaves the reservoir, the statistics,
\* the sample count and the output weights that the same call leaves on a
\* freshly constructed estimator.
DimensionalityChangeRebuilds ==
    [][(kind = "ESNRegressor" /\ hyper \in ValidConfigurations
            /\ "input_weights_" \in est.attrs
            /\ last'.op = "partial_fit" /\ calls' = calls + 1
            /\ last'.n_features # Cols(est.input_weights_))
        => LET Rebuilt(fresh) ==
                    /\ last'.exc = fresh.exc
                    /\ est'.input_weights_ = fresh.st.input_weights_
                    /\ est'.bias_weights_ = fresh.st.bias_weights_
                    /\ est'._xTx = fresh.st._xTx
                    /\ est'._xTy = fresh.st._xTy
                    /\ est'._n_samples = fresh.st._n_samples
                    /\ est'.output_weights_ = fresh.st.output_weights_
           IN  Rebuilt(PartialFit(FreshEstimator, hyper, XOf(last'.batch),
                                  YOf(last'.batch), last'.update, last'.n_jobs,
                                  hyper.random_state[1]))]_vars

RegressionPredictReadOnly ==
    [][(kind = "IncrementalRegression" /\ calls' = calls + 1 /\ last'.op = "predict")
        => est' = est]_vars

\* ------------------------------------------- properties of the fitted flag
\* C27: whenever an ELM estimator has is_fitted_ set, it has the attribute
\* output_weights_ and that attribute is not None.
FittedImpliesWeights ==
    (kind \in ELM /\ "is_fitted_" \in est.attrs) =>
        /\ "output_weights_" \in est.attrs
        /\ est.output_weights_.type # "NoneType"

====
